---------------------------- MODULE Spec2Model ----------------------------
(* Model of the network topology editor (src/network_editor.py): the      *)
(* DiagramScene mouse handlers, the id counters and free pools, the       *)
(* incidence lists kept on the nodes, delete_item, save, load, the two    *)
(* generators and clear_canvas.                                           *)
EXTENDS Integers, Sequences, FiniteSets, TLC

(* ------------------------------------------------------------------ *)
(* Bounds of the model                                                  *)
(* ------------------------------------------------------------------ *)
MaxNodes == 3
MaxArrows == 2
MaxTexts == 1
MaxPos == 2
MaxCounter == 2
MaxArg == 6

(* ------------------------------------------------------------------ *)
(* Python strings: an id is a sequence of characters                    *)
(* ------------------------------------------------------------------ *)
Digits == <<"0", "1", "2", "3", "4", "5", "6", "7", "8", "9">>

\* ord(c) of the characters that occur in ids
Ord(c) ==
  CASE c = "0" -> 48 [] c = "1" -> 49 [] c = "2" -> 50 [] c = "3" -> 51
    [] c = "4" -> 52 [] c = "5" -> 53 [] c = "6" -> 54 [] c = "7" -> 55
    [] c = "8" -> 56 [] c = "9" -> 57 [] c = "h" -> 104 [] c = "s" -> 115
    [] c = "x" -> 120

IsDigit(c) == \E d \in 1..10 : Digits[d] = c

DigitVal(c) == (CHOOSE d \in 1..10 : Digits[d] = c) - 1

\* str(n) for n >= 0
RECURSIVE Str(_)
Str(n) == IF n < 10 THEN <<Digits[n + 1]>>
          ELSE Str(n \div 10) \o <<Digits[(n % 10) + 1]>>

\* f"s{counter}" and f"h{counter}"
MkId(prefix, n) == <<prefix>> \o Str(n)

\* x[1:]
Suffix(x) == IF Len(x) = 0 THEN <<>> ELSE Tail(x)

\* int(s) succeeds exactly on a non-empty run of digits (over this alphabet)
IntOk(s) == Len(s) > 0 /\ \A i \in 1..Len(s) : IsDigit(s[i])

RECURSIVE IntOf(_)
IntOf(s) == IF Len(s) = 0 THEN 0
            ELSE IntOf(SubSeq(s, 1, Len(s) - 1)) * 10 + DigitVal(s[Len(s)])

\* node.startswith(p)
StartsWith(x, p) == Len(x) > 0 /\ x[1] = p

\* Python's str < str: code point order, a proper prefix is smaller
RECURSIVE StrLess(_, _)
StrLess(a, b) ==
  IF Len(b) = 0 THEN FALSE
  ELSE IF Len(a) = 0 THEN TRUE
  ELSE IF Ord(a[1]) # Ord(b[1]) THEN Ord(a[1]) < Ord(b[1])
  ELSE StrLess(Tail(a), Tail(b))

\* Python's list < list on lists of strings
RECURSIVE ListLess(_, _)
ListLess(a, b) ==
  IF Len(b) = 0 THEN FALSE
  ELSE IF Len(a) = 0 THEN TRUE
  ELSE IF a[1] # b[1] THEN StrLess(a[1], b[1])
  ELSE ListLess(Tail(a), Tail(b))

\* insert x into the sorted sequence s, after the elements not greater than it
RECURSIVE InsertSorted(_, _)
InsertSorted(x, s) ==
  IF Len(s) = 0 THEN <<x>>
  ELSE IF ListLess(x, s[1]) THEN <<x>> \o s
  ELSE <<s[1]>> \o InsertSorted(x, Tail(s))

\* sorted(s) / s.sort() on a list of lists of strings (a stable sort)
RECURSIVE SortLists(_)
SortLists(s) ==
  IF Len(s) = 0 THEN <<>>
  ELSE InsertSorted(s[Len(s)], SortLists(SubSeq(s, 1, Len(s) - 1)))

\* the two ids as they come
AsGiven(a, b) == <<a, b>>

\* sorted([a, b]) on two strings
SortedPair(a, b) == IF StrLess(b, a) THEN <<b, a>> ELSE <<a, b>>

SeqToSet(s) == {s[i] : i \in 1..Len(s)}

(* ------------------------------------------------------------------ *)
(* State                                                                *)
(* ------------------------------------------------------------------ *)
VARIABLES
  myMode,             \* DiagramScene._my_mode
  myItemType,         \* DiagramScene._my_item_type
  line,               \* DiagramScene.line: NoLine or the rubber band's p1, p2
  pointerChecked,     \* MainWindow._pointer_type_group.checkedId()
  host_counter,       \* DiagramScene.host_counter
  switch_counter,     \* DiagramScene.switch_counter
  available_hosts,    \* DiagramScene.available_hosts
  available_switches, \* DiagramScene.available_switches
  nodes,              \* the DiagramImageItem objects of the scene in the order
                      \* they were added: id, diagram_type, pos, arrows
  arrows,             \* the Arrow objects: start item, end item, on the scene or not
  texts,              \* the DiagramTextItem objects on the scene: their position
  selected,           \* QGraphicsScene.selectedItems()
  down,               \* a mouse button is held
  grab,               \* the pointer's cell while a movable item is grabbed, else 0
  saved,              \* the tokens of the file written by the last save
  call,               \* the frame of a call of a link generator: its two
                      \* arguments and the list it returned
  msg                 \* the QMessageBox the handler that ran last showed

vars == <<myMode, myItemType, line, pointerChecked, host_counter, switch_counter,
          available_hosts, available_switches, nodes, arrows, texts,
          selected, down, grab, saved, call, msg>>

NodeSlots == 1..MaxNodes
ArrowSlots == 1..MaxArrows
TextSlots == 1..MaxTexts
Cells == 1..MaxPos

\* a point of the canvas: a cell, or a point of the drawn line of arrow k
\* (MaxPos + k) away from both of its endpoints
Points == 1..(MaxPos + MaxArrows)

NoNode == [id |-> <<>>, kind |-> "None", pos |-> 0, arrows |-> <<>>]
NoArrow == [s |-> 0, e |-> 0, on |-> FALSE]
NoLine == [p1 |-> 0, p2 |-> 0]
NoFile == <<"none">>
NoCall == [fn |-> "none", a |-> 0, b |-> 0, links |-> <<>>]

NodeItem(n) == [t |-> "node", i |-> n]
ArrowItem(a) == [t |-> "arrow", i |-> a]
TextItem(x) == [t |-> "text", i |-> x]
NoItem == [t |-> "none", i |-> 0]

Live(n) == nodes[n].kind # "None"
LiveNodes == {n \in NodeSlots : Live(n)}
SceneArrows == {a \in ArrowSlots : arrows[a].on}
SceneTexts == {x \in TextSlots : texts[x] # 0}

\* DiagramScene.__init__ and MainWindow.__init__
Constructed ==
  /\ myMode = "MoveItem"
  /\ myItemType = "Host"
  /\ line = NoLine
  /\ pointerChecked = "MoveItem"
  /\ host_counter = 1
  /\ switch_counter = 1
  /\ available_hosts = {}
  /\ available_switches = {}
  /\ nodes = [n \in NodeSlots |-> NoNode]
  /\ arrows = [a \in ArrowSlots |-> NoArrow]
  /\ texts = [x \in TextSlots |-> 0]
  /\ selected = {}
  /\ down = FALSE
  /\ grab = 0
  /\ saved = NoFile
  /\ msg = "none"

Init == Constructed /\ call = NoCall

(* ------------------------------------------------------------------ *)
(* QGraphicsScene: hit testing and the base class's press handling      *)
(* ------------------------------------------------------------------ *)
\* the node added last among the nodes 1..n that sit on cell c, 0 when
\* there is none
RECURSIVE TopNodeAt(_, _, _)
TopNodeAt(ns, n, c) ==
  IF n = 0 THEN 0
  ELSE IF ns[n].pos = c THEN n
  ELSE TopNodeAt(ns, n - 1, c)

\* the drawn line of arrow a can be pointed at between its endpoints only
\* when they sit on different cells (the arrow is drawn behind the nodes)
ArrowVisible(ns, as, a) ==
  /\ as[a].on
  /\ ns[as[a].s].pos # ns[as[a].e].pos

\* QGraphicsScene.items(point)[0], the rubber band aside: text items have
\* z = 1000, nodes z = 0 in insertion order, arrows z = -1000
TopItem(ns, as, ts, pt) ==
  IF pt \in Cells
  THEN IF \E x \in TextSlots : ts[x] = pt
       THEN TextItem(CHOOSE x \in TextSlots : ts[x] = pt)
       ELSE IF TopNodeAt(ns, MaxNodes, pt) # 0
            THEN NodeItem(TopNodeAt(ns, MaxNodes, pt))
            ELSE NoItem
  ELSE IF ArrowVisible(ns, as, pt - MaxPos) THEN ArrowItem(pt - MaxPos)
       ELSE NoItem

\* QGraphicsScene.mousePressEvent: the selection after a press whose top
\* selectable item is top
PressSelection(top, ctrl, sel) ==
  IF top = NoItem THEN (IF ctrl THEN sel ELSE {})
  ELSE IF ctrl THEN sel \cup {top}
  ELSE IF top \in sel THEN sel
  ELSE {top}

\* the press grabs a movable item (nodes and text items are movable)
PressGrab(top, pt) == IF top.t \in {"node", "text"} THEN pt ELSE 0

(* ------------------------------------------------------------------ *)
(* DiagramScene.mousePressEvent                                         *)
(* ------------------------------------------------------------------ *)
Min(S) == CHOOSE m \in S : \A k \in S : m <= k

FreeNodeSlots == {n \in NodeSlots : ~Live(n)}
FreeTextSlots == {x \in TextSlots : texts[x] = 0}

\* an Arrow object is alive while it is on the scene or in some arrows list
ArrowAlive(ns, as, a) ==
  as[a].on \/ \E n \in NodeSlots : a \in SeqToSet(ns[n].arrows)

\* available_switches.pop(): an arbitrary member of the set
SwitchPoolChoices(pool) == pool

\* sorted(available_hosts, key=lambda x: int(x[1:]))[0]: a member whose
\* suffix is numerically smallest; the sort raises ValueError when some
\* member's suffix is no integer
HostPoolSortable(pool) == \A x \in pool : IntOk(Suffix(x))
\* sorted(available_hosts)[0], the order of the strings themselves
HostPoolFirstString(pool) == {x \in pool : \A y \in pool : ~StrLess(y, x)}
HostPoolChoices(pool) ==
  {x \in pool : \A y \in pool : IntOf(Suffix(x)) <= IntOf(Suffix(y))}

\* the ids the press may give the new node, with the pool and counter after
\* it: <<id, pool', counter'>>
SwitchAlloc ==
  IF available_switches # {}
  THEN {<<x, available_switches \ {x}, switch_counter>> :
          x \in SwitchPoolChoices(available_switches)}
  ELSE {<<MkId("s", switch_counter), available_switches, switch_counter + 1>>}

HostAlloc ==
  IF available_hosts # {}
  THEN {<<x, available_hosts \ {x}, host_counter>> :
          x \in HostPoolChoices(available_hosts)}
  ELSE {<<MkId("h", host_counter), available_hosts, host_counter + 1>>}

\* the InsertItem branch, lines 342-381, then the base class's press
PressInsertItem(pt, ctrl) ==
  /\ pt \in Cells
  /\ FreeNodeSlots # {}
  /\ IF myItemType = "Host" /\ available_hosts # {}
        /\ ~HostPoolSortable(available_hosts)
     THEN \* ValueError leaves the handler before anything is added
          /\ UNCHANGED <<nodes, selected, grab, host_counter,
                         switch_counter, available_hosts, available_switches>>
     ELSE \E al \in (IF myItemType = "Switch" THEN SwitchAlloc ELSE HostAlloc) :
          LET n == Min(FreeNodeSlots)
              ns == [nodes EXCEPT ![n] = [id |-> al[1], kind |-> myItemType,
                                           pos |-> pt, arrows |-> <<>>]]
              top == TopItem(ns, arrows, texts, pt)
          IN /\ (IF myItemType = "Switch"
                 THEN available_switches = {} => switch_counter <= MaxCounter
                 ELSE available_hosts = {} => host_counter <= MaxCounter)
             /\ nodes' = ns
             /\ IF myItemType = "Switch"
                THEN /\ available_switches' = al[2]
                     /\ switch_counter' = al[3]
                     /\ UNCHANGED <<available_hosts, host_counter>>
                ELSE /\ available_hosts' = al[2]
                     /\ host_counter' = al[3]
                     /\ UNCHANGED <<available_switches, switch_counter>>
             /\ selected' = PressSelection(top, ctrl, selected)
             /\ grab' = PressGrab(top, pt)
  /\ UNCHANGED <<myMode, line, texts, arrows>>

\* the InsertLine branch, lines 382-385, then the base class's press
PressInsertLine(pt, ctrl) ==
  LET top == TopItem(nodes, arrows, texts, pt)
  IN /\ line' = [p1 |-> pt, p2 |-> pt]
     /\ selected' = PressSelection(top, ctrl, selected)
     /\ grab' = PressGrab(top, pt)
     /\ UNCHANGED <<myMode, nodes, texts, arrows, host_counter,
                    switch_counter, available_hosts, available_switches>>

\* a text_inserted that leaves the mode as it is
TextKeepsMode == myMode

\* MainWindow.text_inserted: the mode becomes the checked pointer button's
TextInsertedMode == pointerChecked

\* the InsertText branch, lines 386-396, then the base class's press
PressInsertText(pt, ctrl) ==
  /\ pt \in Cells
  /\ FreeTextSlots # {}
  /\ LET x == Min(FreeTextSlots)
         ts == [texts EXCEPT ![x] = pt]
         top == TopItem(nodes, arrows, ts, pt)
     IN /\ texts' = ts
        /\ myMode' = TextInsertedMode
        /\ selected' = PressSelection(top, ctrl, selected)
        /\ grab' = PressGrab(top, pt)
  /\ UNCHANGED <<line, nodes, arrows, host_counter, switch_counter,
                 available_hosts, available_switches>>

\* a press in the MoveItem mode that places an item as the InsertItem mode does
PressPlacesItem(pt, ctrl) == PressInsertItem(pt, ctrl)

\* the MoveItem mode: only the base class's press, line 398
PressMoveItem(pt, ctrl) ==
  LET top == TopItem(nodes, arrows, texts, pt)
  IN /\ selected' = PressSelection(top, ctrl, selected)
     /\ grab' = PressGrab(top, pt)
     /\ UNCHANGED <<myMode, line, nodes, texts, arrows, host_counter,
                    switch_counter, available_hosts, available_switches>>

\* a point of an arrow's line exists only while that arrow is drawn
PointOk(pt) ==
  IF pt \in Cells THEN TRUE ELSE ArrowVisible(nodes, arrows, pt - MaxPos)

MousePress(pt, ctrl, left) ==
  /\ ~down
  /\ PointOk(pt)
  /\ down' = TRUE
  /\ IF ~left
     THEN UNCHANGED <<myMode, line, nodes, texts, arrows, selected,
                         grab, host_counter, switch_counter, available_hosts,
                         available_switches>>
     ELSE CASE myMode = "InsertItem" -> PressInsertItem(pt, ctrl)
            [] myMode = "InsertLine" -> PressInsertLine(pt, ctrl)
            [] myMode = "InsertText" -> PressInsertText(pt, ctrl)
            [] myMode = "MoveItem" -> PressMoveItem(pt, ctrl)
  /\ msg' = "none"
  /\ UNCHANGED <<myItemType, pointerChecked, saved, call>>

(* ------------------------------------------------------------------ *)
(* DiagramScene.mouseMoveEvent                                          *)
(* ------------------------------------------------------------------ *)
\* QGraphicsItem.mouseMoveEvent of the grabbed item: every selected movable
\* item follows the pointer by the same offset
MovedNodes(d) ==
  [n \in NodeSlots |->
     IF Live(n) /\ NodeItem(n) \in selected
     THEN [nodes[n] EXCEPT !.pos = @ + d] ELSE nodes[n]]

MovedTexts(d) ==
  [x \in TextSlots |->
     IF texts[x] # 0 /\ TextItem(x) \in selected THEN texts[x] + d ELSE texts[x]]

MouseMove(pt) ==
  /\ down
  /\ PointOk(pt)
  /\ IF myMode = "InsertLine" /\ line # NoLine
     THEN /\ line' = [line EXCEPT !.p2 = pt]
          /\ UNCHANGED <<nodes, texts, grab>>
     ELSE IF myMode = "MoveItem" /\ grab # 0
     THEN /\ pt \in Cells
          /\ \A n \in LiveNodes : MovedNodes(pt - grab)[n].pos \in Cells
          /\ \A x \in SceneTexts : MovedTexts(pt - grab)[x] \in Cells
          /\ nodes' = MovedNodes(pt - grab)
          /\ texts' = MovedTexts(pt - grab)
          /\ grab' = pt
          /\ UNCHANGED line
     ELSE UNCHANGED <<line, nodes, texts, grab>>
  /\ UNCHANGED <<myMode, myItemType, pointerChecked, host_counter,
                 switch_counter, available_hosts, available_switches, arrows,
                 selected, down, saved, call>>
  /\ msg' = "none"

(* ------------------------------------------------------------------ *)
(* DiagramScene.mouseReleaseEvent                                       *)
(* ------------------------------------------------------------------ *)
FreeArrowSlots == {a \in ArrowSlots : ~ArrowAlive(nodes, arrows, a)}

\* the condition without its last conjunct
BothOnNodes(startItem, endItem) ==
  /\ startItem.t = "node"
  /\ endItem.t = "node"

\* lines 419-422: both ends of the rubber band lie on a node item and the
\* two items differ
LinkAccepted(startItem, endItem) ==
  /\ startItem.t = "node"
  /\ endItem.t = "node"
  /\ startItem # endItem

\* DiagramImageItem.add_arrow
add_arrow(ns, n, a) == [ns EXCEPT ![n].arrows = Append(@, a)]

MouseRelease ==
  /\ down
  /\ down' = FALSE
  /\ grab' = 0
  /\ line' = NoLine
  /\ IF line # NoLine /\ myMode = "InsertLine"
     THEN LET startItem == TopItem(nodes, arrows, texts, line.p1)
              endItem == TopItem(nodes, arrows, texts, line.p2)
          IN IF LinkAccepted(startItem, endItem)
             THEN /\ FreeArrowSlots # {}
                  /\ LET a == Min(FreeArrowSlots)
                     IN /\ arrows' = [arrows EXCEPT
                                        ![a] = [s |-> startItem.i,
                                                e |-> endItem.i, on |-> TRUE]]
                        /\ nodes' = add_arrow(add_arrow(nodes, startItem.i, a),
                                              endItem.i, a)
             ELSE UNCHANGED <<nodes, arrows>>
     ELSE UNCHANGED <<nodes, arrows>>
  /\ UNCHANGED <<myMode, myItemType, pointerChecked, host_counter,
                 switch_counter, available_hosts, available_switches, texts,
                 selected, saved, call>>
  /\ msg' = "none"

(* ------------------------------------------------------------------ *)
(* MainWindow.delete_item                                               *)
(* ------------------------------------------------------------------ *)
\* DiagramImageItem.remove_arrow: list.remove drops the first occurrence,
\* a ValueError (no occurrence) is swallowed
RECURSIVE RemoveFirst(_, _)
RemoveFirst(s, a) ==
  IF Len(s) = 0 THEN <<>>
  ELSE IF s[1] = a THEN Tail(s)
  ELSE <<s[1]>> \o RemoveFirst(Tail(s), a)

remove_arrow(ns, n, a) == [ns EXCEPT ![n].arrows = RemoveFirst(@, a)]

\* a turn that takes the arrow off the scene and out of no list
DetachFromScene(st, a) == [st EXCEPT !.as = [st.as EXCEPT ![a].on = FALSE]]

\* one turn of the loop of remove_arrows, lines 176-178
DetachArrow(st, a) ==
  [st EXCEPT
     !.ns = remove_arrow(remove_arrow(st.ns, st.as[a].s, a), st.as[a].e, a),
     !.as = [st.as EXCEPT ![a].on = FALSE]]

\* DiagramImageItem.remove_arrows: the loop runs over a copy of the list
RECURSIVE remove_arrows(_, _)
remove_arrows(st, copy) ==
  IF Len(copy) = 0 THEN st
  ELSE remove_arrows(DetachArrow(st, copy[1]), Tail(copy))

\* a delete that puts no id into a pool
ReleaseNothing(st, n) == st

\* lines 521-524: the id goes to the free pool of the node's kind
ReleaseId(st, n) ==
  IF st.ns[n].kind = "Switch"
  THEN [st EXCEPT !.sw = @ \cup {st.ns[n].id}]
  ELSE [st EXCEPT !.ho = @ \cup {st.ns[n].id}]

\* QGraphicsScene.removeItem of a node, an arrow or a text item
RemoveItem(st, item) ==
  CASE item.t = "node" ->
         [st EXCEPT !.ns = [@ EXCEPT ![item.i] = NoNode]]
    [] item.t = "arrow" -> [st EXCEPT !.as = [@ EXCEPT ![item.i].on = FALSE]]
    [] item.t = "text" -> [st EXCEPT !.ts = [@ EXCEPT ![item.i] = 0]]

\* one turn of the loop of delete_item, lines 519-527, as the scene states
\* it goes through: after the pool's add (521-524), after remove_arrows (526),
\* after removeItem (527)
DeleteTurn(st, item) ==
  IF item.t = "node"
  THEN LET released == ReleaseId(st, item.i)
           detached == remove_arrows(released, released.ns[item.i].arrows)
       IN <<released, detached, RemoveItem(detached, item)>>
  ELSE <<RemoveItem(st, item)>>

\* the scene state one turn of the loop ends in
DeleteOne(st, item) ==
  LET turn == DeleteTurn(st, item) IN turn[Len(turn)]

RECURSIVE SetToSeq(_)
SetToSeq(S) ==
  IF S = {} THEN <<>>
  ELSE LET x == CHOOSE y \in S : TRUE IN <<x>> \o SetToSeq(S \ {x})

RECURSIVE DeleteAll(_, _)
DeleteAll(st, items) ==
  IF Len(items) = 0 THEN st
  ELSE DeleteAll(DeleteOne(st, items[1]), Tail(items))

\* the objects that are left, numbered anew in the order they were made:
\* the nodes still on the scene, and the Arrow objects the scene or some
\* arrows list still refers to
Rank(S, x) == Cardinality({y \in S : y <= x})
Unrank(S, j) == CHOOSE x \in S : Rank(S, x) = j

CompactNodes(ns, as) ==
  LET L == {n \in NodeSlots : ns[n].kind # "None"}
      A == {a \in ArrowSlots : ArrowAlive(ns, as, a)}
  IN [j \in NodeSlots |->
        IF j <= Cardinality(L)
        THEN [ns[Unrank(L, j)] EXCEPT
                !.arrows = [i \in DOMAIN @ |-> Rank(A, @[i])]]
        ELSE NoNode]

CompactArrows(ns, as) ==
  LET L == {n \in NodeSlots : ns[n].kind # "None"}
      A == {a \in ArrowSlots : ArrowAlive(ns, as, a)}
  IN [j \in ArrowSlots |->
        IF j <= Cardinality(A)
        THEN [s |-> Rank(L, as[Unrank(A, j)].s),
              e |-> Rank(L, as[Unrank(A, j)].e),
              on |-> as[Unrank(A, j)].on]
        ELSE NoArrow]

SceneState ==
  [ns |-> nodes, as |-> arrows, ts |-> texts,
   ho |-> available_hosts, sw |-> available_switches]

delete_item ==
  /\ ~down
  /\ selected # {}
  /\ LET st == DeleteAll(SceneState, SetToSeq(selected))
     IN /\ nodes' = CompactNodes(st.ns, st.as)
        /\ arrows' = CompactArrows(st.ns, st.as)
        /\ texts' = st.ts
        /\ available_hosts' = st.ho
        /\ available_switches' = st.sw
  /\ selected' = {}
  /\ msg' = "none"
  /\ UNCHANGED <<myMode, myItemType, line, pointerChecked, host_counter,
                 switch_counter, down, grab, saved, call>>

(* ------------------------------------------------------------------ *)
(* The topology file: json.dumps as written by save, json.load          *)
(* ------------------------------------------------------------------ *)
\* tokens of the file: brackets, commas and string literals
LBr == <<"[">>
RBr == <<"]">>
Comma == <<",">>
StrTok(x) == <<"str">> \o x
IsStrTok(t) == Len(t) > 0 /\ t[1] = "str"

\* json.dumps(connection) for a list of strings
RECURSIVE DumpItems(_)
DumpItems(c) ==
  IF Len(c) = 0 THEN <<>>
  ELSE IF Len(c) = 1 THEN <<StrTok(c[1])>>
  ELSE <<StrTok(c[1]), Comma>> \o DumpItems(Tail(c))

Dumps(c) == <<LBr>> \o DumpItems(c) \o <<RBr>>

\* lines 675-681: one connection per line, a comma after all but the last
RECURSIVE WriteLines(_, _)
WriteLines(conns, idx) ==
  IF idx > Len(conns) THEN <<>>
  ELSE Dumps(conns[idx])
         \o (IF idx # Len(conns) THEN <<Comma>> ELSE <<>>)
         \o WriteLines(conns, idx + 1)

WriteFile(conns) == <<LBr>> \o WriteLines(conns, 1) \o <<RBr>>

\* json.load: a value is a string or an array of values; the result is
\* [ok, val, rest], a string as [k |-> "s", v |-> chars] and an array as
\* [k |-> "a", v |-> sequence of values]
ParseFail == [ok |-> FALSE, val |-> [k |-> "s", v |-> <<>>], rest |-> <<>>]

RECURSIVE ParseValue(_)
RECURSIVE ParseElems(_, _)
ParseValue(toks) ==
  IF Len(toks) = 0 THEN ParseFail
  ELSE IF IsStrTok(toks[1])
  THEN [ok |-> TRUE, val |-> [k |-> "s", v |-> Tail(toks[1])], rest |-> Tail(toks)]
  ELSE IF toks[1] = LBr
  THEN IF Len(toks) >= 2 /\ toks[2] = RBr
       THEN [ok |-> TRUE, val |-> [k |-> "a", v |-> <<>>],
             rest |-> SubSeq(toks, 3, Len(toks))]
       ELSE ParseElems(Tail(toks), <<>>)
  ELSE ParseFail

\* the elements of an array after its "[" or after a ","
ParseElems(toks, acc) ==
  LET r == ParseValue(toks)
  IN IF ~r.ok \/ Len(r.rest) = 0 THEN ParseFail
     ELSE IF r.rest[1] = RBr
     THEN [ok |-> TRUE, val |-> [k |-> "a", v |-> Append(acc, r.val)],
           rest |-> Tail(r.rest)]
     ELSE IF r.rest[1] = Comma
     THEN ParseElems(Tail(r.rest), Append(acc, r.val))
     ELSE ParseFail

\* json.load(f): the whole file is one value
JsonLoad(toks) ==
  LET r == ParseValue(toks)
  IN IF r.ok /\ Len(r.rest) = 0 THEN r ELSE ParseFail

(* ------------------------------------------------------------------ *)
(* networkx.Graph as load and _populate_scene_from_links use it         *)
(* ------------------------------------------------------------------ *)
EmptyGraph == [nodes |-> <<>>, adj |-> <<>>]

IndexOf(s, x) == CHOOSE i \in 1..Len(s) : s[i] = x
Contains(s, x) == \E i \in 1..Len(s) : s[i] = x

AddNode(G, u) ==
  IF Contains(G.nodes, u) THEN G
  ELSE [nodes |-> Append(G.nodes, u), adj |-> Append(G.adj, <<>>)]

AddNbr(G, u, v) ==
  LET i == IndexOf(G.nodes, u)
  IN IF Contains(G.adj[i], v) THEN G
     ELSE [G EXCEPT !.adj[i] = Append(@, v)]

\* Graph.add_edge(u, v)
add_edge(G, u, v) == AddNbr(AddNbr(AddNode(AddNode(G, u), v), u, v), v, u)

\* Graph.edges(): each edge once, from the endpoint that comes first in
\* node order, neighbours in the order they were added
RECURSIVE EdgesFrom(_, _, _)
EdgesFrom(G, i, j) ==
  IF i > Len(G.nodes) THEN <<>>
  ELSE IF j > Len(G.adj[i]) THEN EdgesFrom(G, i + 1, 1)
  ELSE LET nbr == G.adj[i][j]
       IN (IF IndexOf(G.nodes, nbr) < i THEN <<>>
           ELSE << <<G.nodes[i], nbr>> >>)
          \o EdgesFrom(G, i, j + 1)

Edges(G) == EdgesFrom(G, 1, 1)

(* ------------------------------------------------------------------ *)
(* MainWindow.save                                                      *)
(* ------------------------------------------------------------------ *)
\* lines 665-670: one sorted pair of ids per Arrow among scene.items()
RECURSIVE CollectConnections(_, _, _)
CollectConnections(ns, as, a) ==
  IF a = 0 THEN <<>>
  ELSE (IF as[a].on
        THEN <<SortedPair(ns[as[a].s].id, ns[as[a].e].id)>>
        ELSE <<>>)
       \o CollectConnections(ns, as, a - 1)

\* lines 665-671: the connections as they are written
SaveConnections(ns, as) == SortLists(CollectConnections(ns, as, MaxArrows))

SaveTokens(ns, as) == WriteFile(SaveConnections(ns, as))

save ==
  /\ ~down
  /\ saved' = SaveTokens(nodes, arrows)
  /\ msg' = "saved"
  /\ UNCHANGED <<myMode, myItemType, line, pointerChecked, host_counter,
                 switch_counter, available_hosts, available_switches, nodes,
                 arrows, texts, selected, down, grab, call>>

(* ------------------------------------------------------------------ *)
(* MainWindow.load and MainWindow._populate_scene_from_links            *)
(* ------------------------------------------------------------------ *)
\* nx.kamada_kawai_layout places every node of the graph; the i-th node's
\* coordinates fall into this cell of the canvas
Layout(i) == ((i - 1) % MaxPos) + 1

\* iterating the loaded value: the elements of an array, the characters of
\* a string
Entries(val) ==
  IF val.k = "a" THEN val.v
  ELSE [i \in 1..Len(val.v) |-> [k |-> "s", v |-> <<val.v[i]>>]]

\* connection[0], connection[1] of an entry of length 2: a character of a
\* string, the string of a string element; a list element is unhashable
EntryHashable(e) == e.k = "s" \/ \A i \in 1..Len(e.v) : e.v[i].k = "s"
EntryFirst(e, i) == IF e.k = "s" THEN <<e.v[1]>> ELSE e.v[1].v
EntryItem(e, i) == IF e.k = "s" THEN <<e.v[i]>> ELSE e.v[i].v

\* lines 762-765: entries whose len is not 2 are passed over; the result is
\* [ok, G], ok FALSE when add_edge raised TypeError
RECURSIVE BuildGraph(_, _, _)
BuildGraph(es, i, G) ==
  IF i > Len(es) THEN [ok |-> TRUE, G |-> G]
  ELSE IF Len(es[i].v) = 2
  THEN IF EntryHashable(es[i])
       THEN BuildGraph(es, i + 1,
                       add_edge(G, EntryItem(es[i], 1), EntryItem(es[i], 2)))
       ELSE [ok |-> FALSE, G |-> G]
  ELSE BuildGraph(es, i + 1, G)

\* lines 773-778: the kind of a node id, "None" when the id is passed over
KindOf(id) ==
  IF StartsWith(id, "s") THEN "Switch"
  ELSE IF StartsWith(id, "h") THEN "Host"
  ELSE "None"

\* the items dict of lines 771-784: for the i-th node of G the slot of the
\* item made for it, 0 when none was made
RECURSIVE MadeBefore(_, _)
MadeBefore(G, i) ==
  IF i = 0 THEN 0
  ELSE MadeBefore(G, i - 1) + (IF KindOf(G.nodes[i]) # "None" THEN 1 ELSE 0)

ItemSlot(G, i) == IF KindOf(G.nodes[i]) = "None" THEN 0 ELSE MadeBefore(G, i)

\* lines 771-784: the node items, in the order of G's nodes
PlaceNodes(G) ==
  [n \in NodeSlots |->
     IF \E i \in 1..Len(G.nodes) : ItemSlot(G, i) = n
     THEN LET i == CHOOSE j \in 1..Len(G.nodes) : ItemSlot(G, j) = n
          IN [id |-> G.nodes[i], kind |-> KindOf(G.nodes[i]),
              pos |-> Layout(i), arrows |-> <<>>]
     ELSE NoNode]

\* lines 787-796: one Arrow per edge of G; items[node] raises KeyError for
\* an id no item was made for, and the loop stops there
RECURSIVE PlaceArrows(_, _, _, _)
PlaceArrows(G, es, k, st) ==
  IF k > Len(es) THEN st
  ELSE LET si == ItemSlot(G, IndexOf(G.nodes, es[k][1]))
           ei == ItemSlot(G, IndexOf(G.nodes, es[k][2]))
       IN IF si = 0 \/ ei = 0 THEN [st EXCEPT !.ok = FALSE]
          ELSE PlaceArrows(G, es, k + 1,
                 [st EXCEPT
                    !.as = [@ EXCEPT ![k] = [s |-> si, e |-> ei, on |-> TRUE]],
                    !.ns = add_arrow(add_arrow(@, si, k), ei, k)])

\* the scene after scene.clear() and the steps 1 to 4
Populate(G) ==
  PlaceArrows(G, Edges(G), 1,
              [ok |-> TRUE, ns |-> PlaceNodes(G),
               as |-> [a \in ArrowSlots |-> NoArrow]])

\* the graph fits the model's item slots
GraphFits(G) ==
  /\ MadeBefore(G, Len(G.nodes)) <= MaxNodes
  /\ Len(Edges(G)) <= MaxArrows

\* what load does with the tokens of the chosen file:
\*   [parsed, ok, fits, ns, as]: parsed FALSE when json.load raised (nothing
\*   was touched), ok FALSE when a later step raised (the scene was cleared
\*   and holds what had been added), fits FALSE when the file asks for more
\*   items than the model has slots
EmptyNodes == [n \in NodeSlots |-> NoNode]
EmptyArrows == [a \in ArrowSlots |-> NoArrow]

LoadOutcome(toks) ==
  LET r == JsonLoad(toks)
      b == BuildGraph(Entries(r.val), 1, EmptyGraph)
      cleared == [parsed |-> TRUE, ok |-> FALSE, fits |-> TRUE,
                  ns |-> EmptyNodes, as |-> EmptyArrows]
  IN IF ~r.ok THEN [cleared EXCEPT !.parsed = FALSE]
     ELSE IF ~b.ok THEN cleared
     ELSE IF ~GraphFits(b.G) THEN [cleared EXCEPT !.fits = FALSE]
     ELSE LET pop == Populate(b.G)
          IN [parsed |-> TRUE, ok |-> pop.ok, fits |-> TRUE,
              ns |-> pop.ns, as |-> pop.as]

\* MainWindow.load, lines 754-806, given what the file led to
LoadApply(res) ==
  /\ ~down
  /\ res.fits
  /\ IF res.parsed
     THEN /\ nodes' = res.ns
          /\ arrows' = res.as
          /\ texts' = [x \in TextSlots |-> 0]
          /\ selected' = {}
     ELSE UNCHANGED <<nodes, arrows, texts, selected>>
  /\ msg' = (IF res.ok THEN "loaded" ELSE "load_failed")
  /\ UNCHANGED <<myMode, myItemType, line, pointerChecked, host_counter,
                 switch_counter, available_hosts, available_switches, down,
                 grab, saved, call>>

\* MainWindow.load with the tokens of the file the user chose
LoadFile(toks) == LoadApply(LoadOutcome(toks))

(* ------------------------------------------------------------------ *)
(* The generators and clear_canvas                                      *)
(* ------------------------------------------------------------------ *)
\* a flat generator that spreads the hosts over all the switches
FlatOverSwitches(num_hosts, num_switches) ==
  [i \in 1..num_hosts |->
     <<MkId("h", i), MkId("s", ((i - 1) % num_switches) + 1)>>]

\* generate_links_flat(num_hosts, num_switches)
generate_links_flat(num_hosts, num_switches) ==
  [i \in 1..num_hosts |-> <<MkId("h", i), <<"s", "1">> >>]

\* a subnet generator that numbers the hosts of every subnet from 1
SubnetsLocalHosts(num_subnets, hosts_per_subnet) ==
  [j \in 1..(num_subnets * hosts_per_subnet) |->
     <<MkId("h", ((j - 1) % hosts_per_subnet) + 1),
       MkId("s", ((j - 1) \div hosts_per_subnet) + 1)>>]
  \o [k \in 1..num_subnets |-> <<MkId("s", k), MkId("s", num_subnets + 1)>>]

\* generate_links_subnets(num_subnets, hosts_per_subnet)
generate_links_subnets(num_subnets, hosts_per_subnet) ==
  [j \in 1..(num_subnets * hosts_per_subnet) |->
     <<MkId("h", j), MkId("s", ((j - 1) \div hosts_per_subnet) + 1)>>]
  \o [k \in 1..num_subnets |-> <<MkId("s", k), MkId("s", num_subnets + 1)>>]

\* lines 694-696: for a, b in connections: G.add_edge(a, b)
RECURSIVE GraphOfLinks(_, _, _)
GraphOfLinks(links, i, G) ==
  IF i > Len(links) THEN G
  ELSE GraphOfLinks(links, i + 1, add_edge(G, links[i][1], links[i][2]))

\* the scene _populate_scene_from_links builds from the links
PopulateOutcome(links) ==
  LET G == GraphOfLinks(links, 1, EmptyGraph)
  IN IF Len(links) > MaxArrows \/ ~GraphFits(G)
     THEN [ok |-> TRUE, fits |-> FALSE, ns |-> EmptyNodes, as |-> EmptyArrows]
     ELSE [ok |-> TRUE, fits |-> TRUE, ns |-> Populate(G).ns, as |-> Populate(G).as]

\* a _populate_scene_from_links that also empties the two pools
PopulateEmptiesPools(res) ==
  /\ res.fits
  /\ nodes' = res.ns
  /\ arrows' = res.as
  /\ texts' = [x \in TextSlots |-> 0]
  /\ selected' = {}
  /\ msg' = "none"
  /\ available_hosts' = {}
  /\ available_switches' = {}
  /\ UNCHANGED <<myMode, myItemType, line, pointerChecked, host_counter,
                 switch_counter, down, grab, saved, call>>

\* MainWindow._populate_scene_from_links
populate_scene_from_links(res) ==
  /\ res.fits
  /\ nodes' = res.ns
  /\ arrows' = res.as
  /\ texts' = [x \in TextSlots |-> 0]
  /\ selected' = {}
  /\ msg' = "none"
  /\ UNCHANGED <<myMode, myItemType, line, pointerChecked, host_counter,
                 switch_counter, available_hosts, available_switches, down,
                 grab, saved, call>>

\* the values the two QInputDialog.getInt calls can return, cut to what the
\* model's slots can hold
FlatHosts == 1..MaxArrows
FlatSwitches == 1..2
SubnetCounts == 1..MaxArrows
SubnetHosts == 1..MaxArrows

\* a table of <<argument, value>> pairs and the value it holds for x
Lookup(table, x) == (CHOOSE p \in table : p[1] = x)[2]

FlatOutcome ==
  {<<a, PopulateOutcome(generate_links_flat(a[1], a[2]))>> :
     a \in FlatHosts \X FlatSwitches}
SubnetOutcome ==
  {<<a, PopulateOutcome(generate_links_subnets(a[1], a[2]))>> :
     a \in SubnetCounts \X SubnetHosts}

generate_flat_topology(hosts, switches) ==
  /\ ~down
  /\ populate_scene_from_links(Lookup(FlatOutcome, <<hosts, switches>>))

generate_subnet_topology(subnets, hosts_per_subnet) ==
  /\ ~down
  /\ populate_scene_from_links(Lookup(SubnetOutcome, <<subnets, hosts_per_subnet>>))

\* a clear_canvas that resets the counters and leaves the pools
ClearKeepsPools ==
  /\ ~down
  /\ nodes' = [n \in NodeSlots |-> NoNode]
  /\ arrows' = [a \in ArrowSlots |-> NoArrow]
  /\ texts' = [x \in TextSlots |-> 0]
  /\ selected' = {}
  /\ host_counter' = 1
  /\ switch_counter' = 1
  /\ msg' = "cleared"
  /\ UNCHANGED <<myMode, myItemType, line, pointerChecked, down, grab, saved,
                 call, available_hosts, available_switches>>

clear_canvas ==
  /\ ~down
  /\ nodes' = [n \in NodeSlots |-> NoNode]
  /\ arrows' = [a \in ArrowSlots |-> NoArrow]
  /\ texts' = [x \in TextSlots |-> 0]
  /\ selected' = {}
  /\ host_counter' = 1
  /\ switch_counter' = 1
  /\ available_hosts' = {}
  /\ available_switches' = {}
  /\ msg' = "cleared"
  /\ UNCHANGED <<myMode, myItemType, line, pointerChecked, down, grab, saved, call>>

(* ------------------------------------------------------------------ *)
(* The tool box and the pointer buttons                                 *)
(* ------------------------------------------------------------------ *)
ModeFrame ==
  /\ msg' = "none"
  /\ UNCHANGED <<line, host_counter, switch_counter, available_hosts,
                 available_switches, nodes, arrows, texts, selected,
                 down, grab, saved, call>>

\* create_cell_widget, lines 1174-1175: a click on the Switch or Host button
item_button_clicked(type) ==
  /\ ~down
  /\ myMode' = "InsertItem"
  /\ myItemType' = type
  /\ UNCHANGED pointerChecked
  /\ ModeFrame

\* line 888: a click on the Text button
text_button_clicked ==
  /\ ~down
  /\ myMode' = "InsertText"
  /\ UNCHANGED <<myItemType, pointerChecked>>
  /\ ModeFrame

\* MainWindow.pointer_group_clicked after a click on the button with id i
pointer_group_clicked(i) ==
  /\ ~down
  /\ pointerChecked' = i
  /\ myMode' = i
  /\ UNCHANGED myItemType
  /\ ModeFrame

(* ------------------------------------------------------------------ *)
(* The editor: every handler, on files of a fixed sample                *)
(* ------------------------------------------------------------------ *)
h1 == <<"h", "1">>
h2 == <<"h", "2">>
h10 == <<"h", "1", "0">>
hx == <<"h", "x">>
s1 == <<"s", "1">>
x1 == <<"x", "1">>

\* files the user can pick in the Load dialog: edge lists over host and
\* switch ids, in several orders and orientations
ValidEdgeLists ==
  { << <<h1, s1>> >>,
    << <<s1, h1>>, <<h1, s1>> >>,
    << <<h1, s1>>, <<h2, s1>> >>,
    << <<s1, h2>>, <<s1, h1>> >>,
    << <<h10, h2>> >> }

ValidFiles == {WriteFile(E) : E \in ValidEdgeLists}

\* edge lists with a pair that names one id twice
SelfPairLists ==
  { << <<h1, h1>> >>,
    << <<h1, h1>>, <<h1, s1>> >> }

\* edge lists with an id that is no "h" or "s" followed by a number
OddIdLists ==
  { << <<hx, s1>> >>,
    << <<x1, h1>> >> }

\* edge lists with an entry of one id or of three
OddArityLists ==
  { << <<h1>>, <<h2, s1>> >>,
    << <<h1, s1, h2>>, <<h2, s1>> >> }

\* files with a self pair, an odd id, an entry that is no pair, and a text
\* that is not JSON
InvalidFiles ==
  {WriteFile(E) : E \in SelfPairLists \cup OddIdLists \cup OddArityLists}
    \cup {<<LBr, LBr>>}

SampleFiles == ValidFiles \cup InvalidFiles

\* what each of them leads to
SampleOutcome == {<<toks, LoadOutcome(toks)>> : toks \in SampleFiles}

\* Load with the sample file toks
load(toks) == LoadApply(Lookup(SampleOutcome, toks))

\* Load with the file the last save wrote
load_saved == saved # NoFile /\ LoadFile(saved)

Modes == {"MoveItem", "InsertLine"}
Kinds == {"Host", "Switch"}

(* ------------------------------------------------------------------ *)
(* Sessions                                                             *)
(* ------------------------------------------------------------------ *)
\* Placing and deleting items on canvases that are also generated, loaded
\* and cleared; plain left clicks, no link is drawn by hand.
Next ==
  \/ \E pt \in Points : MousePress(pt, FALSE, TRUE)
  \/ MouseRelease
  \/ delete_item
  \/ clear_canvas
  \/ load(WriteFile(<< <<h10, h2>> >>))
  \/ \E hosts \in FlatHosts : generate_flat_topology(hosts, 1)
  \/ generate_subnet_topology(1, 1)
  \/ \E type \in Kinds : item_button_clicked(type)
  \/ pointer_group_clicked("MoveItem")

Spec == Init /\ [][Next]_vars

\* Drawing: nodes, text and links placed by hand with either mouse button,
\* items dragged; nothing is deleted.
Draw ==
  \/ \E pt \in Points, left \in BOOLEAN : MousePress(pt, FALSE, left)
  \/ \E pt \in Points : MouseMove(pt)
  \/ MouseRelease
  \/ \E type \in Kinds : item_button_clicked(type)
  \/ text_button_clicked
  \/ \E i \in Modes : pointer_group_clicked(i)

SpecDraw == Init /\ [][Draw]_vars

\* Files: sample files and saved files are loaded, links are drawn between
\* the loaded nodes, the canvas is saved.
Files ==
  \/ \E pt \in Points, ctrl \in BOOLEAN : MousePress(pt, ctrl, TRUE)
  \/ \E pt \in Cells : MouseMove(pt)
  \/ MouseRelease
  \/ \E toks \in SampleFiles : load(toks)
  \/ save
  \/ load_saved
  \/ \E subnets \in {1}, hosts \in {1} : generate_subnet_topology(subnets, hosts)
  \/ \E i \in Modes : pointer_group_clicked(i)

SpecFiles == Init /\ [][Files]_vars

\* Foreign ids: a file with the id "hx" is loaded, nodes are deleted and
\* placed again by hand, items are dragged.
Foreign ==
  \/ load(WriteFile(<< <<hx, s1>> >>))
  \/ \E pt \in Points : MousePress(pt, FALSE, TRUE)
  \/ \E pt \in Cells : MouseMove(pt)
  \/ MouseRelease
  \/ delete_item
  \/ \E type \in Kinds : item_button_clicked(type)
  \/ pointer_group_clicked("MoveItem")

SpecForeign == Init /\ [][Foreign]_vars

\* Editing by hand only: nodes are placed, links are drawn, items are
\* selected (also with ctrl) with the link pointer and deleted, the canvas is
\* cleared; nothing is loaded or generated, nothing is dragged.
Edit ==
  \/ \E pt \in Points, ctrl \in BOOLEAN : MousePress(pt, ctrl, TRUE)
  \/ \E pt \in Cells : MouseMove(pt)
  \/ MouseRelease
  \/ delete_item
  \/ clear_canvas
  \/ \E type \in Kinds : item_button_clicked(type)
  \/ pointer_group_clicked("InsertLine")

SpecEdit == Init /\ [][Edit]_vars

\* Clearing: the canvas is cleared after nodes and text were placed, nodes
\* were deleted or a topology was generated.
Clear ==
  \/ \E pt \in Points : MousePress(pt, FALSE, TRUE)
  \/ MouseRelease
  \/ delete_item
  \/ clear_canvas
  \/ generate_flat_topology(1, 1)
  \/ \E type \in Kinds : item_button_clicked(type)
  \/ text_button_clicked
  \/ pointer_group_clicked("MoveItem")

SpecClear == Init /\ [][Clear]_vars

\* Persisting: canvases with generated links, hosts placed by hand and items
\* deleted are saved, and the saved file is loaded.
Persist ==
  \/ \E pt \in Points : MousePress(pt, FALSE, TRUE)
  \/ MouseRelease
  \/ delete_item
  \/ generate_subnet_topology(1, 1)
  \/ item_button_clicked("Host")
  \/ pointer_group_clicked("MoveItem")
  \/ save
  \/ load_saved

SpecPersist == Init /\ [][Persist]_vars

\* The link generators called on their own: every pair of arguments up to
\* MaxArg, either generator, any number of times.
GenInputs ==
  {[fn |-> "none", a |-> x, b |-> y, links |-> <<>>] : x, y \in 1..MaxArg}

InitGen == Constructed /\ call \in GenInputs

EditorIdle ==
  UNCHANGED <<myMode, myItemType, line, pointerChecked, host_counter,
              switch_counter, available_hosts, available_switches, nodes,
              arrows, texts, selected, down, grab, saved, msg>>

call_generate_links_flat ==
  /\ call' = [call EXCEPT !.fn = "flat",
                          !.links = generate_links_flat(call.a, call.b)]
  /\ EditorIdle

call_generate_links_subnets ==
  /\ call' = [call EXCEPT !.fn = "subnets",
                          !.links = generate_links_subnets(call.a, call.b)]
  /\ EditorIdle

Gen ==
  \/ call_generate_links_flat
  \/ call_generate_links_subnets

SpecGen == InitGen /\ [][Gen]_vars

(* ------------------------------------------------------------------ *)
(* Properties                                                           *)
(* ------------------------------------------------------------------ *)
NodeCount == Cardinality(LiveNodes)

\* a press that puts a new node of the kind on the canvas; the node takes
\* the first free slot
InsertsNode(kind) ==
  /\ myMode = "InsertItem"
  /\ myItemType = kind
  /\ ~down
  /\ down'
  /\ Cardinality({n \in NodeSlots : nodes'[n].kind # "None"}) = NodeCount + 1

\* x is a member of the pool whose suffix is numerically smallest
NumericMin(pool, x) ==
  /\ x \in pool
  /\ \A y \in pool : IntOk(Suffix(y)) /\ IntOf(Suffix(x)) <= IntOf(Suffix(y))

\* C1: no two live nodes of the same kind carry the same id.
C1_UniqueIds ==
  \A m, n \in LiveNodes :
    (m # n /\ nodes[m].kind = nodes[n].kind) => nodes[m].id # nodes[n].id

\* the number of times arrow a occurs in the arrows list of node n
Occurrences(n, a) ==
  Cardinality({i \in DOMAIN nodes[n].arrows : nodes[n].arrows[i] = a})

\* C2: a link is in a live node's arrows list exactly once if and only if
\* the link is on the canvas and the node is one of its two endpoints.
C2_Incidence ==
  \A n \in LiveNodes, a \in ArrowSlots :
    (Occurrences(n, a) = 1) <=> (arrows[a].on /\ n \in {arrows[a].s, arrows[a].e})

\* C3: every link on the canvas has two endpoints that are live nodes and
\* differ from each other.
C3_Endpoints ==
  \A a \in ArrowSlots :
    arrows[a].on =>
      /\ arrows[a].s \in LiveNodes
      /\ arrows[a].e \in LiveNodes
      /\ arrows[a].s # arrows[a].e

\* C4: a host inserted while the host pool is non-empty gets the pool's id
\* with the numerically smallest suffix, and that id leaves the pool; with
\* an empty pool it gets "h" + host_counter and the counter grows by one.
C4_HostReuse ==
  [][InsertsNode("Host") =>
       LET new == nodes'[NodeCount + 1]
       IN /\ new.kind = "Host"
          /\ IF available_hosts # {}
             THEN /\ NumericMin(available_hosts, new.id)
                  /\ available_hosts' = available_hosts \ {new.id}
                  /\ host_counter' = host_counter
             ELSE /\ new.id = <<"h">> \o Str(host_counter)
                  /\ host_counter' = host_counter + 1
                  /\ available_hosts' = {}]_vars

\* C4, its case: a host has just been inserted while the pool held h2 and
\* h10, it got h2 and h10 stays in the pool.
C4_Reached ==
  /\ down
  /\ myMode = "InsertItem"
  /\ nodes[1].id = h2
  /\ nodes[2] = NoNode
  /\ available_hosts = {h10}

\* C5: a switch inserted while the switch pool holds two or more ids gets
\* the pool's id with the numerically smallest suffix.
C5_SwitchReuse ==
  [][(InsertsNode("Switch") /\ Cardinality(available_switches) >= 2) =>
       NumericMin(available_switches, nodes'[NodeCount + 1].id)]_vars

\* the slot, after node d is gone, of a node that stays
SlotAfter(d, n) == IF n < d THEN n ELSE n - 1

\* arrow a starts or ends at node d
Incident(a, d) == d \in {arrows[a].s, arrows[a].e}

\* the entries of a list of arrows that are not incident on node d
NotIncident(l, d) == SelectSeq(l, LAMBDA a : ~Incident(a, d))

\* an arrow as seen from the nodes that stay: where it starts, where it
\* ends, whether it is on the canvas
ViewBefore(a, d) ==
  <<SlotAfter(d, arrows[a].s), SlotAfter(d, arrows[a].e), arrows[a].on>>

\* what deleting the one selected node d must lead to
CascadeDelete(d) ==
  /\ \A n \in NodeSlots : nodes'[n].kind # "None" <=> n \in 1..(NodeCount - 1)
  /\ \A n \in LiveNodes \ {d} :
       LET after == nodes'[SlotAfter(d, n)]
           kept == NotIncident(nodes[n].arrows, d)
       IN /\ after.id = nodes[n].id
          /\ after.kind = nodes[n].kind
          /\ after.pos = nodes[n].pos
          /\ Len(after.arrows) = Len(kept)
          /\ \A i \in DOMAIN kept :
               LET b == after.arrows[i]
               IN <<arrows'[b].s, arrows'[b].e, arrows'[b].on>>
                    = ViewBefore(kept[i], d)
  /\ \A b \in ArrowSlots :
       arrows'[b].on =>
         /\ nodes'[arrows'[b].s].kind # "None"
         /\ nodes'[arrows'[b].e].kind # "None"
  /\ \A s \in NodeSlots, e \in NodeSlots :
       Cardinality({b \in ArrowSlots :
                      arrows'[b] = [s |-> s, e |-> e, on |-> TRUE]})
         = Cardinality({a \in ArrowSlots :
                          /\ arrows[a].on
                          /\ ~Incident(a, d)
                          /\ ViewBefore(a, d) = <<s, e, TRUE>>})
  /\ IF nodes[d].kind = "Switch"
     THEN /\ available_switches' = available_switches \cup {nodes[d].id}
          /\ available_hosts' = available_hosts
     ELSE /\ available_hosts' = available_hosts \cup {nodes[d].id}
          /\ available_switches' = available_switches
  /\ texts' = texts
  /\ host_counter' = host_counter
  /\ switch_counter' = switch_counter

\* C6: deleting a selected node takes every link incident on it off the
\* canvas and out of the arrows list at the other end, leaves the other
\* links and nodes as they were and puts the node's id into the pool of its
\* kind; a switch inserted while that id is the only one in the pool gets it.
C6_CascadeDelete ==
  [][/\ \A d \in NodeSlots :
          (selected = {NodeItem(d)} /\ selected' = {} /\ delete_item)
            => CascadeDelete(d)
     /\ \A x \in available_switches :
          (available_switches = {x} /\ InsertsNode("Switch")) =>
            (nodes'[NodeCount + 1].id = x /\ available_switches' = {})]_vars

\* C6, its case: of h1, s1, h2 with the links (h1, s1) and (h2, s1), made
\* by the flat generator, s1 has been deleted.
C6_Reached ==
  /\ nodes[1].id = h1 /\ nodes[1].arrows = <<>>
  /\ nodes[2].id = h2 /\ nodes[2].arrows = <<>>
  /\ nodes[3] = NoNode
  /\ SceneArrows = {}
  /\ available_switches = {s1}
  /\ host_counter = 1
  /\ switch_counter = 1

\* the release that ends an insert-link gesture
GestureEnds == down /\ ~down' /\ myMode = "InsertLine" /\ line # NoLine

\* the item the point lands on
Landing(pt) == TopItem(nodes, arrows, texts, pt)

\* exactly one link from node s to node e is added, and it is appended to
\* the arrows lists of both
LinkAdded(s, e) ==
  \E a \in ArrowSlots :
    /\ ~arrows[a].on
    /\ \A n \in NodeSlots : Occurrences(n, a) = 0
    /\ arrows' = [arrows EXCEPT ![a] = [s |-> s, e |-> e, on |-> TRUE]]
    /\ nodes' = [n \in NodeSlots |->
                   IF n \in {s, e}
                   THEN [nodes[n] EXCEPT !.arrows = Append(@, a)]
                   ELSE nodes[n]]
    /\ texts' = texts

LinkPairs ==
  {{nodes[arrows[a].s].id, nodes[arrows[a].e].id} : a \in SceneArrows}

\* the connections written in a file of lists of strings
FileList(toks) ==
  LET val == JsonLoad(toks).val
  IN [i \in DOMAIN val.v |-> [j \in DOMAIN val.v[i].v |-> val.v[i].v[j].v]]

\* C8: the saved file is fixed by the multiset of the id pairs of the links
\* on the canvas: it lists one pair per link, the two ids of every pair in
\* lexicographic order and the pairs in lexicographic order.
C8_CanonicalSave ==
  msg = "saved" =>
    LET L == FileList(saved)
    IN /\ JsonLoad(saved).ok
       /\ saved = WriteFile(L)
       /\ Len(L) = Cardinality(SceneArrows)
       /\ \A i \in DOMAIN L :
            /\ Len(L[i]) = 2
            /\ ~StrLess(L[i][2], L[i][1])
            /\ Cardinality({j \in DOMAIN L : L[j] = L[i]})
                 = Cardinality({a \in SceneArrows :
                                  {nodes[arrows[a].s].id, nodes[arrows[a].e].id}
                                    = {L[i][1], L[i][2]}})
       /\ \A i, j \in DOMAIN L : i < j => ~ListLess(L[j], L[i])

\* C8, its case: a canvas with two links, one of them running from the
\* greater id to the smaller, has been saved.
C8_Reached ==
  /\ msg = "saved"
  /\ Cardinality(SceneArrows) = 2
  /\ \E a \in SceneArrows :
       StrLess(nodes[arrows[a].e].id, nodes[arrows[a].s].id)

\* the edges of an edge list as unordered pairs
EdgeSet(E) == {{E[i][1], E[i][2]} : i \in DOMAIN E}

\* C9: loading an edge list over host and switch ids, in any order and
\* orientation, yields exactly its edges as links, and loading the file
\* saved from a canvas yields the links of that canvas.
C9_RoundTrip ==
  [][/\ \A E \in ValidEdgeLists :
          load(WriteFile(E)) => (msg' = "loaded" /\ LinkPairs' = EdgeSet(E))
     /\ (msg = "saved" /\ msg' # "saved" /\ load_saved) =>
          (msg' = "loaded" /\ LinkPairs' = LinkPairs)]_vars

\* C9, its case: a file saved from a canvas with two links was loaded.
C9_Reached ==
  /\ msg = "loaded"
  /\ saved # NoFile
  /\ Cardinality(LinkPairs) = 2
  /\ LinkPairs = EdgeSet(FileList(saved))

\* C10: loading an edge list with a pair that names the same id twice is
\* reported as a failure and puts no link on the canvas.
C10_SelfLoopRejected ==
  [][\A E \in SelfPairLists :
       load(WriteFile(E)) =>
         (msg' = "load_failed" /\ \A a \in ArrowSlots : ~arrows'[a].on)]_vars

\* C11: a load that fails leaves the nodes, links and text items of the
\* canvas exactly as they were.
C11_FailedLoadKeepsCanvas ==
  [][msg' = "load_failed" =>
       (nodes' = nodes /\ arrows' = arrows /\ texts' = texts)]_vars

\* C12: a load of an edge list with an entry that is not a pair of two ids
\* is reported as a failure; the entry is not passed over.
C12_ArityRejected ==
  [][\A E \in OddArityLists :
       load(WriteFile(E)) => msg' = "load_failed"]_vars

\* an id of the grammar ^(h|s)[1-9][0-9]*$
GrammarId(id) ==
  /\ Len(id) >= 2
  /\ id[1] \in {"h", "s"}
  /\ IsDigit(id[2])
  /\ id[2] # "0"
  /\ \A i \in 3..Len(id) : IsDigit(id[i])

\* C13: a load of an edge list with an id outside the grammar is reported
\* as a failure, and no node with such an id is on the canvas after it.
C13_IdGrammar ==
  [][\A E \in OddIdLists :
       load(WriteFile(E)) =>
         /\ msg' = "load_failed"
         /\ \A n \in NodeSlots :
              nodes'[n].kind # "None" => GrammarId(nodes'[n].id)]_vars

\* the id made of the prefix and the decimal numeral of n
Named(id, prefix, n) ==
  /\ Len(id) >= 2
  /\ id[1] = prefix
  /\ IntOk(Suffix(id))
  /\ id[2] # "0"
  /\ IntOf(Suffix(id)) = n

\* C14: for hostCount >= 1 and switchCount >= 1 the flat generator returns
\* hostCount edges, the i-th being [h_i, s1], whatever switchCount is.
C14_FlatLinks ==
  call.fn = "flat" =>
    /\ Len(call.links) = call.a
    /\ \A i \in 1..call.a :
         /\ Len(call.links[i]) = 2
         /\ Named(call.links[i][1], "h", i)
         /\ call.links[i][2] = <<"s", "1">>
    /\ \A switches \in 1..MaxArg :
         generate_links_flat(call.a, switches) = call.links

\* C14, its case: generate_links_flat(3, 2) returned [[h1,s1],[h2,s1],[h3,s1]].
C14_Reached ==
  /\ call.fn = "flat"
  /\ call.a = 3
  /\ call.b = 2
  /\ call.links = << <<h1, s1>>, <<h2, s1>>, << <<"h", "3">>, s1>> >>

\* C15: for S >= 1 subnets of H >= 1 hosts the subnet generator returns
\* S*H + S edges: host h_j, j = 1..S*H in increasing order, to switch
\* s_ceil(j/H), each host in exactly one edge, then s_1..s_S each once to
\* the central switch s_(S+1).
C15_SubnetLinks ==
  call.fn = "subnets" =>
    LET S == call.a
        H == call.b
        L == call.links
    IN /\ Len(L) = S * H + S
       /\ \A j \in 1..(S * H) :
            /\ Len(L[j]) = 2
            /\ Named(L[j][1], "h", j)
            /\ \E k \in 1..S :
                 /\ (k - 1) * H < j
                 /\ j <= k * H
                 /\ Named(L[j][2], "s", k)
       /\ \A i, j \in 1..(S * H) : L[i][1] = L[j][1] => i = j
       /\ \A j \in 1..(S * H), i \in 1..Len(L) :
            L[i][2] # L[j][1]
       /\ \A k \in 1..S :
            /\ Len(L[S * H + k]) = 2
            /\ Named(L[S * H + k][1], "s", k)
            /\ Named(L[S * H + k][2], "s", S + 1)

\* C15, its case: generate_links_subnets(2, 2) returned
\* h1-s1, h2-s1, h3-s2, h4-s2, s1-s3, s2-s3.
C15_Reached ==
  /\ call.fn = "subnets"
  /\ call.a = 2
  /\ call.b = 2
  /\ call.links = << <<h1, s1>>, <<h2, s1>>,
                     << <<"h", "3">>, <<"s", "2">> >>,
                     << <<"h", "4">>, <<"s", "2">> >>,
                     <<s1, <<"s", "3">> >>,
                     << <<"s", "2">>, <<"s", "3">> >> >>

\* C16: after the release that ends an insert-link gesture the mode is
\* Select (MoveItem), whether or not a link was created.
C16_LinkGestureReturnsToSelect ==
  [][GestureEnds => myMode' = "MoveItem"]_vars

\* a press, a drag or a release: the only steps with a button held before
\* or after
PointerEvent == down \/ down'

\* the press puts exactly one new node on the canvas: of the kind chosen, with
\* an id of that kind's pool or made from that kind's counter, the nodes that
\* were there staying as they are
InsertsOne ==
  /\ InsertsNode(myItemType)
  /\ LET n == Min(FreeNodeSlots)
         pool == IF myItemType = "Host" THEN available_hosts
                 ELSE available_switches
         fresh == IF myItemType = "Host" THEN MkId("h", host_counter)
                  ELSE MkId("s", switch_counter)
     IN /\ nodes'[n].kind = myItemType
        /\ IF pool = {} THEN nodes'[n].id = fresh ELSE nodes'[n].id \in pool
        /\ \A m \in NodeSlots \ {n} : nodes'[m] = nodes[m]

\* C17: no press, drag or release handled in Select (MoveItem) or in
\* InsertNode (InsertItem) changes the mode, and each press in InsertNode
\* creates exactly one new node of the kind with an id from its allocator.
C17_ModeStability ==
  [][(PointerEvent /\ myMode \in {"MoveItem", "InsertItem"}) =>
       /\ myMode' = myMode
       /\ (myMode = "InsertItem" /\ ~down) => InsertsOne]_vars

C19_SelectFrame ==
  [][(PointerEvent /\ myMode = "MoveItem") =>
       /\ \A n \in NodeSlots :
            /\ nodes'[n].kind = nodes[n].kind
            /\ nodes'[n].id = nodes[n].id
            /\ nodes'[n].arrows = nodes[n].arrows
            /\ nodes[n].kind = "None" => nodes'[n] = nodes[n]
       /\ arrows' = arrows
       /\ host_counter' = host_counter
       /\ switch_counter' = switch_counter
       /\ available_hosts' = available_hosts
       /\ available_switches' = available_switches
       /\ line' = line
       /\ myMode' = myMode]_vars

\* C19, its case: in Select mode a node is held that was dragged onto the
\* cell of the node at the other end of one of its links.
C19_Reached ==
  /\ down
  /\ myMode = "MoveItem"
  /\ \E a \in SceneArrows :
       /\ nodes[arrows[a].s].pos = nodes[arrows[a].e].pos
       /\ grab = nodes[arrows[a].s].pos
       /\ \/ NodeItem(arrows[a].s) \in selected
          \/ NodeItem(arrows[a].e) \in selected

\* the pool of the kind in the scene state st
PoolOf(st, kind) == IF kind = "Switch" THEN st.sw ELSE st.ho

\* the arrows on the scene in st that start or end at node n
IncidentOn(st, n) ==
  {a \in ArrowSlots : st.as[a].on /\ (st.as[a].s = n \/ st.as[a].e = n)}

\* C20: when the selected node is deleted, at the moment its id enters the
\* free pool the node is still on the canvas, its arrows list is empty and
\* no link on the canvas starts or ends at it.
C20_DeleteOrdering ==
  [][\A d \in NodeSlots :
       (selected = {NodeItem(d)} /\ delete_item) =>
         LET before == SceneState
             turn == <<before>> \o DeleteTurn(before, NodeItem(d))
             kind == nodes[d].kind
             id == nodes[d].id
         IN \A i \in 2..Len(turn) :
              (id \in PoolOf(turn[i], kind) /\ id \notin PoolOf(turn[i - 1], kind))
                => /\ turn[i].ns[d].kind = kind
                   /\ turn[i].ns[d].arrows = <<>>
                   /\ IncidentOn(turn[i], d) = {}]_vars

\* the id was issued by the allocator whose counter is now at counter: it is
\* the prefix followed by the numeral of a number below the counter
Issued(id, prefix, counter) ==
  \E k \in 1..(counter - 1) : Named(id, prefix, k)

\* C21: a free pool holds only ids that the allocator of its kind issued
\* earlier and that no live node of the kind carries.
C21_ReleaseDiscipline ==
  /\ \A id \in available_hosts :
       /\ Issued(id, "h", host_counter)
       /\ \A n \in LiveNodes : nodes[n].kind = "Host" => nodes[n].id # id
  /\ \A id \in available_switches :
       /\ Issued(id, "s", switch_counter)
       /\ \A n \in LiveNodes : nodes[n].kind = "Switch" => nodes[n].id # id

\* the ids of the live nodes of the kind
LiveIds(kind) == {nodes[n].id : n \in {m \in LiveNodes : nodes[m].kind = kind}}

\* the numbers the ids end in
Suffixes(ids) == {IntOf(Suffix(id)) : id \in ids}

\* the ids are the prefix followed by a numeral, and the numbers of the live
\* ids and of the pooled ids are disjoint and make up 1..counter-1
Partition(live, pool, prefix, counter) ==
  /\ \A id \in live \cup pool : \E k \in 1..(counter - 1) : Named(id, prefix, k)
  /\ Suffixes(live) \cap Suffixes(pool) = {}
  /\ Suffixes(live) \cup Suffixes(pool) = 1..(counter - 1)

\* C22: in a session of insert presses, link insertions, deletions and
\* clear-canvas only, for each kind the suffixes of the live nodes' ids and
\* the suffixes in the free pool are disjoint and their union is
\* 1..counter-1.
C22_IdPartition ==
  /\ Partition(LiveIds("Host"), available_hosts, "h", host_counter)
  /\ Partition(LiveIds("Switch"), available_switches, "s", switch_counter)

\* C22, its case: two hosts were placed and the first was deleted, and a
\* switch was placed and deleted.
C22_Reached ==
  /\ host_counter = 3
  /\ available_hosts = {h1}
  /\ LiveIds("Host") = {h2}
  /\ switch_counter = 2
  /\ available_switches = {s1}

\* a step of Load or of one of the two generators
LoadOrGenerate ==
  /\ ~down
  /\ selected' = {}
  /\ \/ load(WriteFile(<< <<h10, h2>> >>))
     \/ \E hosts \in FlatHosts : generate_flat_topology(hosts, 1)
     \/ generate_subnet_topology(1, 1)

\* the node the press has made carries an id of the kind's pool or, the pool
\* being empty, the id made from the kind's counter
IdFromAllocator ==
  LET n == Min(FreeNodeSlots)
      pool == IF myItemType = "Host" THEN available_hosts
              ELSE available_switches
      fresh == IF myItemType = "Host" THEN MkId("h", host_counter)
               ELSE MkId("s", switch_counter)
  IN IF pool = {} THEN nodes'[n].id = fresh ELSE nodes'[n].id \in pool

\* C23: Load and the two generators leave both counters and both pools as
\* they were, and the id of the node an insert press makes comes from the
\* pool or the counter alone.
C23_LoadKeepsAllocator ==
  [][/\ LoadOrGenerate =>
          /\ host_counter' = host_counter
          /\ switch_counter' = switch_counter
          /\ available_hosts' = available_hosts
          /\ available_switches' = available_switches
     /\ InsertsNode(myItemType) => IdFromAllocator]_vars

\* C23, its case: a file was loaded while a host id was in the pool and the
\* host counter had advanced.
C23_Reached ==
  /\ msg = "loaded"
  /\ available_hosts # {}
  /\ host_counter > 1

\* C24: after clear_canvas there is no node, link or text item on the
\* canvas, both counters are 1 and both pools are empty; and a host placed
\* with the counter at 1 and the pool empty gets h1, a switch gets s1.
C24_ClearResets ==
  [][/\ (msg' = "cleared" /\ clear_canvas) =>
          /\ \A n \in NodeSlots : nodes'[n].kind = "None"
          /\ \A a \in ArrowSlots :
               ~arrows'[a].on /\ \A n \in NodeSlots : nodes'[n].arrows = <<>>
          /\ \A x \in TextSlots : texts'[x] = 0
          /\ host_counter' = 1
          /\ switch_counter' = 1
          /\ available_hosts' = {}
          /\ available_switches' = {}
     /\ (InsertsNode("Host") /\ host_counter = 1 /\ available_hosts = {}) =>
          nodes'[Min(FreeNodeSlots)].id = <<"h", "1">>
     /\ (InsertsNode("Switch") /\ switch_counter = 1 /\ available_switches = {}) =>
          nodes'[Min(FreeNodeSlots)].id = <<"s", "1">>]_vars

\* C24, its case: the canvas has just been cleared with the Switch button
\* chosen, so that the next press places a switch.
C24_Reached ==
  /\ msg = "cleared"
  /\ myMode = "InsertItem"
  /\ myItemType = "Switch"

\* the nodes at the other ends of the links on the scene that touch node n
Neighbours(ns, as, n) ==
  {m \in NodeSlots :
     \E a \in ArrowSlots :
       /\ as[a].on
       /\ \/ (as[a].s = n /\ as[a].e = m)
          \/ (as[a].e = n /\ as[a].s = m)}

\* one node per id, at most one link per unordered pair of nodes, and every
\* arrows list as long as the node has neighbours
NoParallel(ns, as) ==
  LET L == {n \in NodeSlots : ns[n].kind # "None"}
  IN /\ \A n, m \in L : ns[n].id = ns[m].id => n = m
     /\ \A a, b \in {c \in ArrowSlots : as[c].on} :
          {as[a].s, as[a].e} = {as[b].s, as[b].e} => a = b
     /\ \A n \in L : Len(ns[n].arrows) = Cardinality(Neighbours(ns, as, n))

\* C25: right after a successful load or a generator run the canvas holds
\* one node per id and at most one link per unordered pair of ids, and every
\* node's arrows list has as many entries as the node has distinct
\* neighbours.
C25_NoParallelLinks ==
  [][/\ msg' = "loaded" =>
          \A toks \in SampleFiles :
            load(toks) => NoParallel(nodes', arrows')
     /\ (~down /\ msg' = "none" /\ generate_subnet_topology(1, 1)) =>
          NoParallel(nodes', arrows')]_vars

\* the ids an edge list names
Endpoints(L) == UNION {{L[i][j] : j \in DOMAIN L[i]} : i \in DOMAIN L}

\* the live nodes no link on the canvas starts or ends at
Isolated ==
  {n \in LiveNodes :
     \A a \in SceneArrows : arrows[a].s # n /\ arrows[a].e # n}

\* the file save writes lists the links on the canvas, one entry each, and
\* nothing else
EntriesAreLinks ==
  LET L == FileList(saved')
  IN /\ JsonLoad(saved').ok
     /\ Len(L) = Cardinality(SceneArrows)
     /\ \A i \in DOMAIN L :
          /\ Len(L[i]) = 2
          /\ \E a \in SceneArrows :
               {nodes[arrows[a].s].id, nodes[arrows[a].e].id} = {L[i][1], L[i][2]}

\* loading the file saved last puts on the canvas exactly the nodes the
\* file's entries name
LoadYieldsEndpoints ==
  /\ msg' = "loaded"
  /\ {nodes'[n].id : n \in {m \in NodeSlots : nodes'[m].kind # "None"}}
       = Endpoints(FileList(saved))

\* C26: save writes one entry per link on the canvas and nothing else, a
\* live node without a link does not appear in the saved file, and loading
\* the saved file leaves exactly the endpoints of its entries as nodes.
C26_IsolatedNotPersisted ==
  [][/\ (msg' = "saved" /\ save) =>
          /\ EntriesAreLinks
          /\ \A n \in Isolated : nodes[n].id \notin Endpoints(FileList(saved'))
     /\ (msg = "saved" /\ msg' # "saved" /\ load_saved) =>
          LoadYieldsEndpoints]_vars

====
